---- MODULE Spec2Model ----
(***************************************************************************)
(* Model of the Telegram birthday bot: src/bot/birthday_bot.py (loaders,    *)
(* Person.mention, MessageTemplate.render, select_messages,                *)
(* _get_env_variable, send_telegram_message, congratulate_today) and        *)
(* src/main.py (main).                                                      *)
(*                                                                         *)
(* Text is a sequence of units.  A unit is a one-character string, or, in  *)
(* a template, a replacement field such as "{name}".  A JSON object is a   *)
(* function whose DOMAIN is the set of keys it has, so a missing key is a  *)
(* key outside the DOMAIN, as in a Python dict.                            *)
(***************************************************************************)
EXTENDS Integers, Sequences, FiniteSets, TLC

VARIABLES
    entryPoint,   \* the function that was called: "main", "select_messages", "mention"
    birthdaysFile,\* what json.load gave for birthdays.json (<<>> until it is read)
    messagesFile, \* what json.load gave for messages.json (<<>> until it is read)
    today,        \* date.today()
    environ,      \* os.environ restricted to the two variables the bot reads
    pc,           \* position in the running code
    people,       \* congratulate_today: people
    templates,    \* congratulate_today: templates
    celebrants,   \* congratulate_today: celebrants
    token,        \* congratulate_today: token
    chat_id,      \* congratulate_today: chat_id
    selPeople,    \* select_messages: parameter people
    selTemplates, \* select_messages: parameter templates
    selMessages,  \* select_messages: local messages
    draws,        \* number of random.choice calls made
    messages,     \* congratulate_today: messages
    cursor,       \* congratulate_today: index of the next message of the send loop
    requests,     \* log of the requests.post calls made, with their responses
    envReads,     \* log of the names passed to os.getenv
    outcome,      \* how the called function ended: returned value or raised exception
    exitStatus,   \* process exit status (-1 while running)
    stdout,       \* lines printed by main
    stderr,       \* lines written to standard error when the process dies
    nickname,     \* Person.nickname of the person whose mention is taken
    mentionOut,   \* Person.mention of that person
    mentionAgain  \* Person.mention of a person whose nickname is mentionOut

vars == <<entryPoint, birthdaysFile, messagesFile, today, environ, pc, people,
          templates, celebrants, token, chat_id, selPeople, selTemplates,
          selMessages, draws, messages, cursor, requests, envReads, outcome,
          exitStatus, stdout, stderr, nickname, mentionOut, mentionAgain>>

----------------------------------------------------------------------------
(* Bounds of the model *)

MaxEntries == 2

MaxTemplates == 2

MaxNickLen == 4

SeqsUpTo(S, n) == UNION {[1..k -> S] : k \in 0..n}

----------------------------------------------------------------------------
(* Text helpers: str.strip and str.startswith *)

\* the whitespace str.strip removes, as far as the model's texts have it
IsSpace(u) == u \in {" ", "\t"}

RECURSIVE lstrip(_)
lstrip(s) ==
    IF s = <<>> THEN <<>>
    ELSE IF IsSpace(Head(s)) THEN lstrip(Tail(s)) ELSE s

RECURSIVE rstrip(_)
rstrip(s) ==
    IF s = <<>> THEN <<>>
    ELSE IF IsSpace(s[Len(s)]) THEN rstrip(SubSeq(s, 1, Len(s) - 1)) ELSE s

strip(s) == rstrip(lstrip(s))

startswith(s, u) == Len(s) >= 1 /\ s[1] = u

----------------------------------------------------------------------------
(* Exceptions.  Every exception is a record of one shape; message is what  *)
(* str(exc) gives: the format string with the values put into it.          *)

\* entry: the birthday entry or the date text put into the message, in a
\* sequence of length 0 or 1
Message(fmt, entry, key, status_code, response_text) ==
    [fmt |-> fmt, entry |-> entry, key |-> key,
     status_code |-> status_code, response_text |-> response_text]

NoMessage == Message("", <<>>, "", 0, "")

\* an exception object: its class, str(exc), and the attributes the classes add
Exception(type, message, variable, status_code, response_text) ==
    [type |-> type, message |-> message, variable |-> variable,
     status_code |-> status_code, response_text |-> response_text]

NoException == Exception("None", NoMessage, "", 0, "")

\* raise BirthdayBotError(f"Birthday entry {entry!r} is missing required field {exc.args[0]!r}.")
MissingFieldError(entry, field) ==
    Exception("BirthdayBotError",
              Message("Birthday entry {entry!r} is missing required field {field!r}.",
                      <<entry>>, field, 0, ""),
              "", 0, "")

\* raise BirthdayBotError("No message templates available.")
NoTemplatesError ==
    Exception("BirthdayBotError",
              Message("No message templates available.", <<>>, "", 0, ""),
              "", 0, "")

\* datetime.strptime raises ValueError on a text that is no date of the format;
\* the message quotes the text of the entry's date
DateFormatError(entry) ==
    Exception("ValueError",
              Message("time data {date!r} does not match format '%Y-%m-%d'",
                      <<[date |-> entry.date]>>, "", 0, ""),
              "", 0, "")

\* str.format raises KeyError(field) on a replacement field it was given no value for
RenderKeyError(field) ==
    Exception("KeyError", Message("{field!r}", <<>>, field, 0, ""), "", 0, "")

MissingEnvironmentVariableError(variable) ==
    Exception("MissingEnvironmentVariableError",
              Message("Environment variable {variable!r} is required but missing.",
                      <<>>, variable, 0, ""),
              variable, 0, "")

TelegramApiError(status_code, response_text) ==
    Exception("TelegramApiError",
              Message("Telegram API request failed with status {status_code}: {response_text}",
                      <<>>, "", status_code, response_text),
              "", status_code, response_text)

\* the subclasses of BirthdayBotError, which main's except clause catches
IsBirthdayBotError(exc) ==
    exc.type \in {"BirthdayBotError", "MissingEnvironmentVariableError", "TelegramApiError"}

Returned(value) == [kind |-> "returned", value |-> value, exc |-> NoException]

Raised(exc) == [kind |-> "raised", value |-> <<>>, exc |-> exc]

Running == [kind |-> "running", value |-> <<>>, exc |-> NoException]

----------------------------------------------------------------------------
(* Dates.  A date text "YYYY-MM-DD" is a record of its three numbers;      *)
(* strptime accepts it when the numbers are a day of the calendar.          *)

Date(y, m, d) == [year |-> y, month |-> m, day |-> d]

IsLeapYear(y) == (y % 4 = 0 /\ y % 100 # 0) \/ y % 400 = 0

DaysInMonth(y, m) ==
    IF m = 2 THEN (IF IsLeapYear(y) THEN 29 ELSE 28)
    ELSE IF m \in {4, 6, 9, 11} THEN 30 ELSE 31

\* datetime.strptime(text, "%Y-%m-%d") succeeds
strptime_ok(d) ==
    /\ d.month \in 1..12
    /\ d.day \in 1..DaysInMonth(d.year, d.month)

----------------------------------------------------------------------------
(* Person and MessageTemplate *)

Person(name, nick, birthday) == [name |-> name, nickname |-> nick, birthday |-> birthday]

\* the mutant of mention: the prefix is put in front of every nickname
mention_always_prefix(nick0) == <<"@">> \o strip(nick0)

mention(nick0) ==
    LET nick == strip(nick0)
    IN  IF startswith(nick, "@") THEN nick ELSE <<"@">> \o nick

ReplacementFields == {"{name}", "{mention}", "{other}"}

KnownFields == {"{name}", "{mention}"}

\* str.format(name=..., mention=...) on a text without unknown fields
RECURSIVE format(_, _, _)
format(text, name, ment) ==
    IF text = <<>> THEN <<>>
    ELSE (IF Head(text) = "{name}" THEN name
          ELSE IF Head(text) = "{mention}" THEN ment
          ELSE <<Head(text)>>) \o format(Tail(text), name, ment)

UnknownFieldAt(text) ==
    {i \in 1..Len(text) : text[i] \in ReplacementFields \ KnownFields}

FirstOf(S) == CHOOSE i \in S : \A j \in S : i <= j

\* MessageTemplate.render: the text, or the KeyError of the first unknown field
render(text, person) ==
    IF UnknownFieldAt(text) # {}
    THEN [ok |-> FALSE, value |-> <<>>,
          exc |-> RenderKeyError(text[FirstOf(UnknownFieldAt(text))])]
    ELSE [ok |-> TRUE, value |-> format(text, person.name, mention(person.nickname)),
          exc |-> NoException]

----------------------------------------------------------------------------
(* Loaders *)

\* the mutant of parse_entry: the name and nickname are looked up before the date
parse_entry_name_first(entry) ==
    IF "name" \notin DOMAIN entry
    THEN [ok |-> FALSE, value |-> <<>>, exc |-> MissingFieldError(entry, "name")]
    ELSE IF "nickname" \notin DOMAIN entry
    THEN [ok |-> FALSE, value |-> <<>>, exc |-> MissingFieldError(entry, "nickname")]
    ELSE IF "date" \notin DOMAIN entry
    THEN [ok |-> FALSE, value |-> <<>>, exc |-> MissingFieldError(entry, "date")]
    ELSE IF ~strptime_ok(entry.date)
    THEN [ok |-> FALSE, value |-> <<>>, exc |-> DateFormatError(entry)]
    ELSE [ok |-> TRUE,
          value |-> <<Person(strip(entry.name), strip(entry.nickname), entry.date)>>,
          exc |-> NoException]

\* the body of load_birthdays' loop for one entry: entry["date"] is read and
\* parsed first, then entry["name"], then entry["nickname"]; a KeyError becomes a
\* BirthdayBotError, the ValueError of strptime passes through
parse_entry(entry) ==
    IF "date" \notin DOMAIN entry
    THEN [ok |-> FALSE, value |-> <<>>, exc |-> MissingFieldError(entry, "date")]
    ELSE IF ~strptime_ok(entry.date)
    THEN [ok |-> FALSE, value |-> <<>>, exc |-> DateFormatError(entry)]
    ELSE IF "name" \notin DOMAIN entry
    THEN [ok |-> FALSE, value |-> <<>>, exc |-> MissingFieldError(entry, "name")]
    ELSE IF "nickname" \notin DOMAIN entry
    THEN [ok |-> FALSE, value |-> <<>>, exc |-> MissingFieldError(entry, "nickname")]
    ELSE [ok |-> TRUE,
          value |-> <<Person(strip(entry.name), strip(entry.nickname), entry.date)>>,
          exc |-> NoException]

RECURSIVE load_birthdays_loop(_, _)
load_birthdays_loop(entries, acc) ==
    IF entries = <<>> THEN [ok |-> TRUE, value |-> acc, exc |-> NoException]
    ELSE LET r == parse_entry(Head(entries))
         IN  IF r.ok THEN load_birthdays_loop(Tail(entries), acc \o r.value)
             ELSE [ok |-> FALSE, value |-> <<>>, exc |-> r.exc]

load_birthdays(entries) == load_birthdays_loop(entries, <<>>)

\* [MessageTemplate(text=entry.strip()) for entry in entries if entry.strip()]
RECURSIVE load_message_templates(_)
load_message_templates(entries) ==
    IF entries = <<>> THEN <<>>
    ELSE (IF strip(Head(entries)) # <<>> THEN <<strip(Head(entries))>> ELSE <<>>)
         \o load_message_templates(Tail(entries))

----------------------------------------------------------------------------
(* The inputs the model draws from *)

Ann == [name |-> <<" ", "A">>, nickname |-> <<"a", " ">>, date |-> Date(2020, 2, 29)]

Bob == [name |-> <<"B">>, nickname |-> <<"@", "b">>, date |-> Date(1990, 3, 1)]

Cy == [name |-> <<"C">>, nickname |-> <<"c">>, date |-> Date(2016, 2, 29)]

NoNickname == [name |-> <<"D">>, date |-> Date(2020, 2, 29)]

OnlyNickname == [nickname |-> <<"e">>]

OnlyDate == [date |-> Date(1990, 3, 1)]

BadDate == [name |-> <<"F">>, nickname |-> <<"f">>, date |-> Date(2021, 2, 29)]

NoNameBadDate == [nickname |-> <<"g">>, date |-> Date(2020, 13, 1)]

BirthdayEntries ==
    {Ann, Bob, Cy, NoNickname, OnlyNickname, OnlyDate, BadDate, NoNameBadDate}

MessageEntries ==
    {<<" ">>,
     <<" ", "H", "i", " ", "{name}">>,
     <<"{mention}", "!", " ">>,
     <<"{other}">>}

Todays == {Date(2024, 2, 29), Date(2025, 3, 1)}

TOKEN == "TELEGRAM_BOT_TOKEN"

CHAT == "TELEGRAM_CHAT_ID"

\* os.environ: what os.getenv gives for each variable, in a sequence of length
\* 0 or 1: <<>> is None (unset), <<"">> is set to the empty text
Environs == [{TOKEN, CHAT} -> {<<>>, <<"">>, <<"secret">>}]

\* what the Telegram API may answer
Responses ==
    {[status_code |-> 200, text |-> "ok"],
     [status_code |-> 399, text |-> "moved"],
     [status_code |-> 400, text |-> "bad request"],
     [status_code |-> 401, text |-> "unauthorized"]}

NickUnits == {" ", "\t", "@", "b"}

----------------------------------------------------------------------------
(* Initial states: the state when the called function starts *)

Idle ==
    /\ people = <<>> /\ templates = <<>> /\ celebrants = <<>>
    /\ token = "" /\ chat_id = ""
    /\ selMessages = <<>> /\ draws = 0
    /\ messages = <<>> /\ cursor = 0
    /\ requests = <<>> /\ envReads = <<>>
    /\ outcome = Running
    /\ exitStatus = -1 /\ stdout = <<>> /\ stderr = <<>>
    /\ mentionOut = <<>> /\ mentionAgain = <<>>

\* python main.py: the files are not read yet
Init ==
    /\ entryPoint = "main"
    /\ birthdaysFile = <<>>
    /\ messagesFile = <<>>
    /\ today \in Todays
    /\ environ \in Environs
    /\ pc = "load_birthdays"
    /\ selPeople = <<>> /\ selTemplates = <<>>
    /\ nickname = <<>>
    /\ Idle

----------------------------------------------------------------------------
(* congratulate_today *)

inputs == <<entryPoint, today, environ, nickname>>

files == <<birthdaysFile, messagesFile>>

mentionVars == <<mentionOut, mentionAgain>>

processVars == <<exitStatus, stdout, stderr>>

\* line 147 with 73-74: people = load_birthdays(birthdays_path); the file is
\* read here
LoadBirthdays ==
    /\ pc = "load_birthdays"
    /\ \E entries \in SeqsUpTo(BirthdayEntries, MaxEntries) :
         LET r == load_birthdays(entries)
         IN  /\ birthdaysFile' = entries
             /\ IF r.ok
                THEN /\ people' = r.value
                     /\ pc' = "load_templates"
                     /\ UNCHANGED outcome
                ELSE /\ outcome' = Raised(r.exc)
                     /\ pc' = "ended"
                     /\ UNCHANGED people
    /\ UNCHANGED <<inputs, messagesFile, templates, celebrants, token, chat_id,
                   selPeople, selTemplates, selMessages, draws, messages, cursor,
                   requests, envReads, processVars, mentionVars>>

\* line 148 with 96-99: templates = load_message_templates(messages_path); the
\* file is read here
LoadMessageTemplates ==
    /\ pc = "load_templates"
    /\ \E entries \in SeqsUpTo(MessageEntries, MaxTemplates) :
         /\ messagesFile' = entries
         /\ templates' = load_message_templates(entries)
    /\ pc' = "filter"
    /\ UNCHANGED <<inputs, birthdaysFile, people, celebrants, token, chat_id,
                   selPeople, selTemplates, selMessages, draws, messages, cursor,
                   requests, envReads, outcome, processVars, mentionVars>>

\* the mutant of matches_today: the whole date is compared, the year too
matches_today_with_year(person, t) == person.birthday = t

\* line 153: the condition of the comprehension
matches_today(person, t) ==
    person.birthday.month = t.month /\ person.birthday.day = t.day

\* lines 150-154: the comprehension
RECURSIVE celebrants_of(_, _)
celebrants_of(ps, t) ==
    IF ps = <<>> THEN <<>>
    ELSE (IF matches_today(Head(ps), t) THEN <<Head(ps)>> ELSE <<>>)
         \o celebrants_of(Tail(ps), t)

\* the mutant of FilterCelebrants: no early return when nobody has a birthday
FilterCelebrants_no_early_return ==
    /\ pc = "filter"
    /\ celebrants' = celebrants_of(people, today)
    /\ pc' = "get_token"
    /\ UNCHANGED <<inputs, files, people, templates, token, chat_id, selPeople,
                   selTemplates, selMessages, draws, messages, cursor, requests,
                   envReads, outcome, processVars, mentionVars>>

\* lines 150-157: compute the celebrants, return [] when there are none
FilterCelebrants ==
    /\ pc = "filter"
    /\ celebrants' = celebrants_of(people, today)
    /\ IF celebrants' = <<>>
       THEN outcome' = Returned(<<>>) /\ pc' = "ended"
       ELSE pc' = "get_token" /\ UNCHANGED outcome
    /\ UNCHANGED <<inputs, files, people, templates, token, chat_id, selPeople,
                   selTemplates, selMessages, draws, messages, cursor, requests,
                   envReads, processVars, mentionVars>>

\* the mutant of env_is_missing: only an unset variable counts as missing
env_is_missing_unset_only(value) == value = <<>>

\* line 118: `not value` for the result of os.getenv
env_is_missing(value) == value = <<>> \/ value = <<"">>

\* line 159: token = _get_env_variable("TELEGRAM_BOT_TOKEN")
GetToken ==
    /\ pc = "get_token"
    /\ envReads' = Append(envReads, TOKEN)
    /\ IF env_is_missing(environ[TOKEN])
       THEN /\ outcome' = Raised(MissingEnvironmentVariableError(TOKEN))
            /\ pc' = "ended"
            /\ UNCHANGED token
       ELSE /\ token' = environ[TOKEN][1]
            /\ pc' = "get_chat_id"
            /\ UNCHANGED outcome
    /\ UNCHANGED <<inputs, files, people, templates, celebrants, chat_id, selPeople,
                   selTemplates, selMessages, draws, messages, cursor, requests,
                   processVars, mentionVars>>

\* line 160: chat_id = _get_env_variable("TELEGRAM_CHAT_ID")
GetChatId ==
    /\ pc = "get_chat_id"
    /\ envReads' = Append(envReads, CHAT)
    /\ IF env_is_missing(environ[CHAT])
       THEN /\ outcome' = Raised(MissingEnvironmentVariableError(CHAT))
            /\ pc' = "ended"
            /\ UNCHANGED chat_id
       ELSE /\ chat_id' = environ[CHAT][1]
            /\ pc' = "select_call"
            /\ UNCHANGED outcome
    /\ UNCHANGED <<inputs, files, people, templates, celebrants, token, selPeople,
                   selTemplates, selMessages, draws, messages, cursor, requests,
                   processVars, mentionVars>>

\* line 162: the call select_messages(celebrants, templates)
CallSelectMessages ==
    /\ pc = "select_call"
    /\ selPeople' = celebrants
    /\ selTemplates' = templates
    /\ pc' = "select_check"
    /\ UNCHANGED <<inputs, files, people, templates, celebrants, token, chat_id,
                   selMessages, draws, messages, cursor, requests, envReads,
                   outcome, processVars, mentionVars>>

----------------------------------------------------------------------------
(* select_messages *)

selectFrame == <<selPeople, selTemplates>>

\* the mutant of SelectCheck: the templates are required only when there are people
SelectCheck_only_with_people ==
    /\ pc = "select_check"
    /\ IF selTemplates = <<>> /\ selPeople # <<>>
       THEN outcome' = Raised(NoTemplatesError) /\ pc' = "ended"
       ELSE pc' = "select_loop" /\ UNCHANGED outcome
    /\ selMessages' = <<>>
    /\ UNCHANGED <<inputs, files, people, templates, celebrants, token, chat_id,
                   selectFrame, draws, messages, cursor, requests, envReads,
                   processVars, mentionVars>>

\* lines 106-109: raise when there are no templates, else start with no messages
SelectCheck ==
    /\ pc = "select_check"
    /\ IF selTemplates = <<>>
       THEN outcome' = Raised(NoTemplatesError) /\ pc' = "ended"
       ELSE pc' = "select_loop" /\ UNCHANGED outcome
    /\ selMessages' = <<>>
    /\ UNCHANGED <<inputs, files, people, templates, celebrants, token, chat_id,
                   selectFrame, draws, messages, cursor, requests, envReads,
                   processVars, mentionVars>>

\* the mutant of SelectDraw: each message is sent as soon as it is rendered
SelectDraw_and_send ==
    /\ pc = "select_loop"
    /\ Len(selMessages) < Len(selPeople)
    /\ \E k \in 1..Len(selTemplates) :
         LET r == render(selTemplates[k], selPeople[Len(selMessages) + 1])
         IN  /\ draws' = draws + 1
             /\ IF r.ok
                THEN /\ selMessages' = Append(selMessages, r.value)
                     /\ requests' = Append(requests,
                            [token |-> token, chat_id |-> chat_id, text |-> r.value,
                             response |-> [status_code |-> 200, text |-> "ok"]])
                     /\ UNCHANGED <<pc, outcome>>
                ELSE /\ outcome' = Raised(r.exc)
                     /\ pc' = "ended"
                     /\ UNCHANGED <<selMessages, requests>>
    /\ UNCHANGED <<inputs, files, people, templates, celebrants, token, chat_id,
                   selectFrame, messages, cursor, envReads,
                   processVars, mentionVars>>

\* lines 110-112: one turn of the loop: draw a template, render it for the
\* next person, append the text; a KeyError of render leaves the function
SelectDraw ==
    /\ pc = "select_loop"
    /\ Len(selMessages) < Len(selPeople)
    /\ \E k \in 1..Len(selTemplates) :
         LET r == render(selTemplates[k], selPeople[Len(selMessages) + 1])
         IN  /\ draws' = draws + 1
             /\ IF r.ok
                THEN /\ selMessages' = Append(selMessages, r.value)
                     /\ UNCHANGED <<pc, outcome>>
                ELSE /\ outcome' = Raised(r.exc)
                     /\ pc' = "ended"
                     /\ UNCHANGED selMessages
    /\ UNCHANGED <<inputs, files, people, templates, celebrants, token, chat_id,
                   selectFrame, messages, cursor, requests, envReads,
                   processVars, mentionVars>>

\* line 113: return messages, to congratulate_today (line 162) or to the caller
SelectReturn ==
    /\ pc = "select_loop"
    /\ Len(selMessages) = Len(selPeople)
    /\ IF entryPoint = "select_messages"
       THEN /\ outcome' = Returned(selMessages)
            /\ pc' = "ended"
            /\ UNCHANGED <<messages, cursor>>
       ELSE /\ messages' = selMessages
            /\ cursor' = 1
            /\ pc' = "send"
            /\ UNCHANGED outcome
    /\ UNCHANGED <<inputs, files, people, templates, celebrants, token, chat_id,
                   selectFrame, selMessages, draws, requests, envReads,
                   processVars, mentionVars>>

----------------------------------------------------------------------------
(* send_telegram_message and the send loop *)

\* the mutant of is_error_status: 400 itself is not taken as an error
is_error_status_above_400(status_code) == status_code > 400

\* line 130: response.status_code >= 400
is_error_status(status_code) == status_code >= 400

Request(text, response) ==
    [token |-> token, chat_id |-> chat_id, text |-> text, response |-> response]

\* the mutant of Send: a request answered with an error is issued again
Send_retry ==
    /\ pc = "send"
    /\ cursor <= Len(messages)
    /\ \E response \in Responses :
         /\ requests' = Append(requests, Request(messages[cursor], response))
         /\ IF is_error_status(response.status_code)
            THEN UNCHANGED cursor
            ELSE cursor' = cursor + 1
    /\ Len(requests) < 2 * Len(messages)
    /\ UNCHANGED <<inputs, files, pc, outcome, people, templates, celebrants, token, chat_id,
                   selectFrame, selMessages, draws, messages, envReads,
                   processVars, mentionVars>>

\* lines 163-164 with 125-131: one turn of the loop: post the next message,
\* raise TelegramApiError when the response is an error
Send ==
    /\ pc = "send"
    /\ cursor <= Len(messages)
    /\ \E response \in Responses :
         /\ requests' = Append(requests, Request(messages[cursor], response))
         /\ IF is_error_status(response.status_code)
            THEN /\ outcome' = Raised(TelegramApiError(response.status_code, response.text))
                 /\ pc' = "ended"
                 /\ UNCHANGED cursor
            ELSE /\ cursor' = cursor + 1
                 /\ UNCHANGED <<pc, outcome>>
    /\ UNCHANGED <<inputs, files, people, templates, celebrants, token, chat_id,
                   selectFrame, selMessages, draws, messages, envReads,
                   processVars, mentionVars>>

\* line 165: return messages
ReturnMessages ==
    /\ pc = "send"
    /\ cursor > Len(messages)
    /\ outcome' = Returned(messages)
    /\ pc' = "ended"
    /\ UNCHANGED <<inputs, files, people, templates, celebrants, token, chat_id,
                   selectFrame, selMessages, draws, messages, cursor, requests,
                   envReads, processVars, mentionVars>>

----------------------------------------------------------------------------
(* main *)

runVars == <<people, templates, celebrants, token, chat_id, selectFrame,
             selMessages, draws, messages, cursor, requests, envReads, outcome>>

ErrorLine(prefix, message) == [prefix |-> prefix, message |-> message]

OutputLine(prefix, text) == [prefix |-> prefix, text |-> text]

RECURSIVE MessageLines(_)
MessageLines(ms) ==
    IF ms = <<>> THEN <<>>
    ELSE <<OutputLine("- ", Head(ms))>> \o MessageLines(Tail(ms))

\* the mutant of MainExitOnError: the error is swallowed
MainExitOnError_swallowed ==
    /\ entryPoint = "main" /\ pc = "ended"
    /\ outcome.kind = "raised" /\ IsBirthdayBotError(outcome.exc)
    /\ stdout' = <<OutputLine("No birthdays today.", <<>>)>>
    /\ exitStatus' = 0
    /\ pc' = "exited"
    /\ UNCHANGED <<inputs, files, runVars, stderr, mentionVars>>

\* lines 8-9: raise SystemExit(str(exc)): the message goes to standard error
\* and the exit status is 1
MainExitOnError ==
    /\ entryPoint = "main" /\ pc = "ended"
    /\ outcome.kind = "raised" /\ IsBirthdayBotError(outcome.exc)
    /\ stderr' = <<ErrorLine("", outcome.exc.message)>>
    /\ exitStatus' = 1
    /\ pc' = "exited"
    /\ UNCHANGED <<inputs, files, runVars, stdout, mentionVars>>

\* lines 6-9: an exception that is no BirthdayBotError passes the except
\* clause; the interpreter writes the traceback, which ends with the class
\* and the message of the exception, and exits with status 1
MainUncaught ==
    /\ entryPoint = "main" /\ pc = "ended"
    /\ outcome.kind = "raised" /\ ~IsBirthdayBotError(outcome.exc)
    /\ stderr' = <<ErrorLine("Traceback (most recent call last):", NoMessage),
                   ErrorLine(outcome.exc.type, outcome.exc.message)>>
    /\ exitStatus' = 1
    /\ pc' = "exited"
    /\ UNCHANGED <<inputs, files, runVars, stdout, mentionVars>>

\* lines 11-14: the list of the messages
MainPrintSent ==
    /\ entryPoint = "main" /\ pc = "ended"
    /\ outcome.kind = "returned" /\ outcome.value # <<>>
    /\ stdout' = <<OutputLine("Sent the following birthday messages:", <<>>)>>
                 \o MessageLines(outcome.value)
    /\ exitStatus' = 0
    /\ pc' = "exited"
    /\ UNCHANGED <<inputs, files, runVars, stderr, mentionVars>>

\* lines 15-16
MainPrintNone ==
    /\ entryPoint = "main" /\ pc = "ended"
    /\ outcome.kind = "returned" /\ outcome.value = <<>>
    /\ stdout' = <<OutputLine("No birthdays today.", <<>>)>>
    /\ exitStatus' = 0
    /\ pc' = "exited"
    /\ UNCHANGED <<inputs, files, runVars, stderr, mentionVars>>

Next ==
    \/ LoadBirthdays
    \/ LoadMessageTemplates
    \/ FilterCelebrants
    \/ GetToken
    \/ GetChatId
    \/ CallSelectMessages
    \/ SelectCheck
    \/ SelectDraw
    \/ SelectReturn
    \/ Send
    \/ ReturnMessages
    \/ MainExitOnError
    \/ MainUncaught
    \/ MainPrintSent
    \/ MainPrintNone

Spec == Init /\ [][Next]_vars

----------------------------------------------------------------------------
(* select_messages called on its own *)

People == {parse_entry(e).value[1] : e \in {Ann, Bob, Cy}}

Templates == {strip(e) : e \in MessageEntries} \ {<<>>}

InitSelect ==
    /\ entryPoint = "select_messages"
    /\ selPeople \in SeqsUpTo(People, MaxEntries)
    /\ selTemplates \in SeqsUpTo(Templates, MaxTemplates)
    /\ pc = "select_check"
    /\ birthdaysFile = <<>> /\ messagesFile = <<>>
    /\ today = Date(2024, 2, 29)
    /\ environ = [v \in {TOKEN, CHAT} |-> <<>>]
    /\ nickname = <<>>
    /\ Idle

NextSelect ==
    \/ SelectCheck
    \/ SelectDraw
    \/ SelectReturn

SpecSelect == InitSelect /\ [][NextSelect]_vars

----------------------------------------------------------------------------
(* Person.mention read on its own *)

InitMention ==
    /\ entryPoint = "mention"
    /\ nickname \in SeqsUpTo(NickUnits, MaxNickLen)
    /\ pc = "mention"
    /\ birthdaysFile = <<>> /\ messagesFile = <<>>
    /\ today = Date(2024, 2, 29)
    /\ environ = [v \in {TOKEN, CHAT} |-> <<>>]
    /\ selPeople = <<>> /\ selTemplates = <<>>
    /\ Idle

\* lines 51-57: person.mention for a person with this nickname
Mention ==
    /\ pc = "mention"
    /\ mentionOut' = mention(nickname)
    /\ pc' = "mention_again"
    /\ UNCHANGED <<inputs, files, runVars, processVars, mentionAgain>>

\* lines 51-57: the mention of a person whose nickname is that mention
MentionAgain ==
    /\ pc = "mention_again"
    /\ mentionAgain' = mention(mentionOut)
    /\ pc' = "ended"
    /\ UNCHANGED <<inputs, files, runVars, processVars, mentionOut>>

NextMention ==
    \/ Mention
    \/ MentionAgain

SpecMention == InitMention /\ [][NextMention]_vars

----------------------------------------------------------------------------
(* Properties *)

Ended == pc \in {"ended", "exited"}

RequiredFields == {"name", "nickname", "date"}

Lacks(e) == RequiredFields \ DOMAIN e

HasBadDate(e) == "date" \in DOMAIN e /\ ~strptime_ok(e.date)

Defective(e) == Lacks(e) # {} \/ HasBadDate(e)

DefectiveIdx == {i \in 1..Len(birthdaysFile) : Defective(birthdaysFile[i])}

BothFilesLoad == DefectiveIdx = {}

SameDay(d, t) == d.month = t.month /\ d.day = t.day

NobodyToday ==
    \A i \in 1..Len(birthdaysFile) : ~SameDay(birthdaysFile[i].date, today)

IsMissing(variable) == environ[variable] \in {<<>>, <<"">>}

\* text is the rendering of one of the loaded templates for person
IsRenderingFor(text, person) ==
    \E k \in 1..Len(templates) :
        /\ UnknownFieldAt(templates[k]) = {}
        /\ text = format(templates[k], person.name, mention(person.nickname))

\* C1: in a run where both files load and no loaded person's birthday is on
\* the reference day, no request is issued, no environment variable is read,
\* nothing is raised, and the run ends by returning the empty list, whatever
\* the environment and the templates are.
C1_NoCelebrantsNoConfiguration ==
    (entryPoint = "main" /\ pc \notin {"load_birthdays", "load_templates"}
       /\ BothFilesLoad /\ NobodyToday) =>
        /\ requests = <<>>
        /\ envReads = <<>>
        /\ outcome.kind # "raised"
        /\ Ended => outcome = Returned(<<>>)

C1_Witness ==
    /\ pc = "exited"
    /\ birthdaysFile # <<>> /\ BothFilesLoad /\ NobodyToday
    /\ environ[TOKEN] = <<>> /\ environ[CHAT] = <<>>
    /\ templates = <<>>
    /\ outcome = Returned(<<>>)
    /\ requests = <<>> /\ envReads = <<>>

\* C2: the requests issued are the messages 1..k of the celebrants, in order
\* and once each; only the last request can have a status >= 400, and when it
\* has, the run has ended by raising TelegramApiError with the status code and
\* the body of that response, so the later messages are never sent.
C2_SendsInOrderAbortOnFirstFailure ==
    entryPoint = "main" =>
        LET n == Len(messages)
            k == Len(requests)
        IN  /\ k <= n
            /\ n > 0 => n = Len(celebrants)
            /\ \A i \in 1..n : IsRenderingFor(messages[i], celebrants[i])
            /\ \A i \in 1..k : requests[i].text = messages[i]
            /\ \A i \in 1..(k - 1) : requests[i].response.status_code < 400
            /\ (k >= 1 /\ requests[k].response.status_code >= 400) =>
                   /\ Ended
                   /\ outcome.kind = "raised"
                   /\ outcome.exc.type = "TelegramApiError"
                   /\ outcome.exc.status_code = requests[k].response.status_code
                   /\ outcome.exc.response_text = requests[k].response.text
            /\ (outcome.kind = "raised" /\ outcome.exc.type = "TelegramApiError") =>
                   k >= 1 /\ requests[k].response.status_code >= 400

C2_Witness ==
    /\ pc = "exited"
    /\ Len(messages) = 2 /\ Len(requests) = 1
    /\ messages[1] # messages[2]
    /\ requests[1].response.status_code = 400
    /\ outcome = Raised(TelegramApiError(400, "bad request"))

\* C3: when congratulate_today returns with at least one celebrant, the list
\* has one text per celebrant, the i-th text is the rendering of a loaded
\* template for the i-th celebrant, and the requests issued are exactly the
\* texts of the list, in order, one request each.
C3_ReturnedListIsWhatWasSent ==
    (entryPoint = "main" /\ outcome.kind = "returned" /\ celebrants # <<>>) =>
        /\ Len(outcome.value) = Len(celebrants)
        /\ \A i \in 1..Len(celebrants) : IsRenderingFor(outcome.value[i], celebrants[i])
        /\ Len(requests) = Len(outcome.value)
        /\ \A i \in 1..Len(requests) : requests[i].text = outcome.value[i]

C3_Witness ==
    /\ pc = "exited"
    /\ Len(celebrants) = 2 /\ celebrants[1] # celebrants[2]
    /\ outcome.kind = "returned" /\ Len(outcome.value) = 2
    /\ outcome.value[1] # outcome.value[2]
    /\ Len(requests) = 2

MatchIdx ==
    {i \in 1..Len(people) : SameDay(people[i].birthday, today)}

\* the k-th smallest element of a set of numbers
Kth(S, k) == CHOOSE i \in S : Cardinality({j \in S : j <= i}) = k

\* C4: once computed, the celebrants are the people whose birthday has the
\* month and the day of the reference date, whatever the year, in the order of
\* the list of people, each once.
C4_CelebrantsAreTheMatches ==
    (entryPoint = "main" /\ pc \notin {"load_birthdays", "load_templates", "filter"}) =>
        /\ Len(celebrants) = Cardinality(MatchIdx)
        /\ \A k \in 1..Len(celebrants) : celebrants[k] = people[Kth(MatchIdx, k)]

C4_Witness ==
    /\ pc = "get_token"
    /\ Len(people) = 2 /\ Len(celebrants) = 1
    /\ celebrants[1] = people[2]
    /\ celebrants[1].birthday.year # today.year
    /\ people[1].birthday.month # today.month

\* C5 as claimed: select_messages raises the no-templates error exactly when
\* there is no template and at least one person, before any draw, and returns
\* the empty list when there is neither a person nor a template.
C5_AsClaimed ==
    (entryPoint = "select_messages" /\ pc = "ended") =>
        /\ (outcome = Raised(NoTemplatesError)) <=>
               (selTemplates = <<>> /\ selPeople # <<>>)
        /\ outcome = Raised(NoTemplatesError) => draws = 0
        /\ (selPeople = <<>> /\ selTemplates = <<>>) => outcome = Returned(<<>>)

\* C5: select_messages raises the no-templates error exactly when there is no
\* template, whether or not there is a person, before any draw; with no
\* person and at least one template it returns the empty list.
C5_RaisesWheneverNoTemplates ==
    (entryPoint = "select_messages" /\ pc = "ended") =>
        /\ (outcome = Raised(NoTemplatesError)) <=> (selTemplates = <<>>)
        /\ outcome = Raised(NoTemplatesError) => draws = 0
        /\ (selPeople = <<>> /\ selTemplates # <<>>) =>
               outcome = Returned(<<>>) /\ draws = 0

C5_Witness ==
    /\ entryPoint = "select_messages" /\ pc = "ended"
    /\ selPeople = <<>> /\ selTemplates = <<>>
    /\ outcome = Raised(NoTemplatesError)
    /\ draws = 0

\* C6: in a run with a celebrant where the token or the chat id is unset or
\* empty, nothing is selected, rendered or sent, and the run ends by raising
\* MissingEnvironmentVariableError whose variable is the missing one, the
\* token when both are missing.
C6_MissingConfigurationFailsFirst ==
    (entryPoint = "main" /\ celebrants # <<>> /\ (IsMissing(TOKEN) \/ IsMissing(CHAT))) =>
        /\ draws = 0 /\ selMessages = <<>> /\ messages = <<>>
        /\ requests = <<>>
        /\ pc \notin {"select_call", "select_check", "select_loop", "send"}
        /\ outcome.kind # "returned"
        /\ Ended =>
               /\ outcome.kind = "raised"
               /\ outcome.exc.type = "MissingEnvironmentVariableError"
               /\ outcome.exc.variable = (IF IsMissing(TOKEN) THEN TOKEN ELSE CHAT)
               /\ outcome.exc.message.key = outcome.exc.variable

C6_Witness ==
    /\ pc = "exited"
    /\ celebrants # <<>>
    /\ environ[TOKEN] = <<"secret">> /\ environ[CHAT] = <<"">>
    /\ outcome = Raised(MissingEnvironmentVariableError(CHAT))
    /\ requests = <<>> /\ draws = 0

\* when a loader error ended the run: nothing after line 147 has happened
AbortedInLoader ==
    /\ Ended
    /\ outcome.kind = "raised"
    /\ people = <<>> /\ templates = <<>> /\ celebrants = <<>>
    /\ envReads = <<>> /\ requests = <<>> /\ draws = 0

FirstDefective == birthdaysFile[FirstOf(DefectiveIdx)]

\* C7 as claimed: the first defective entry decides; when it lacks a field the
\* error is the bot error naming the entry and a field it lacks, and when its
\* date is no date the error is the date-format error.
C7_AsClaimed ==
    (entryPoint = "main" /\ pc # "load_birthdays" /\ DefectiveIdx # {}) =>
        /\ Lacks(FirstDefective) # {} =>
               \E f \in Lacks(FirstDefective) :
                   outcome = Raised(MissingFieldError(FirstDefective, f))
        /\ HasBadDate(FirstDefective) =>
               outcome = Raised(DateFormatError(FirstDefective))
        /\ AbortedInLoader

FirstLacking(e) ==
    IF "date" \in Lacks(e) THEN "date"
    ELSE IF "name" \in Lacks(e) THEN "name" ELSE "nickname"

\* C7: the first defective entry decides.  When its date is present and is
\* no date, the error is the date-format error (a ValueError), also when the
\* entry lacks name or nickname; otherwise the error is the bot error naming
\* the entry and the first field it lacks, in the order date, name, nickname.
\* The run is aborted before the templates are loaded, the celebrants
\* computed, the environment read or a request issued.
C7_FirstDefectiveEntryAborts ==
    (entryPoint = "main" /\ pc # "load_birthdays" /\ DefectiveIdx # {}) =>
        /\ outcome =
               (IF HasBadDate(FirstDefective)
                THEN Raised(DateFormatError(FirstDefective))
                ELSE Raised(MissingFieldError(FirstDefective, FirstLacking(FirstDefective))))
        /\ HasBadDate(FirstDefective) => ~IsBirthdayBotError(outcome.exc)
        /\ ~HasBadDate(FirstDefective) => outcome.exc.type = "BirthdayBotError"
        /\ AbortedInLoader

C7_Witness ==
    /\ pc = "exited"
    /\ birthdaysFile = <<Ann, NoNameBadDate>>
    /\ SameDay(Ann.date, today)
    /\ environ[TOKEN] = <<>>
    /\ outcome = Raised(DateFormatError(NoNameBadDate))
    /\ AbortedInLoader

\* C8: a run of main that has ended is in exactly one of three outcomes: the
\* pipeline raised, the exit status is not zero and the message of the error
\* is on standard error; or it returned the empty list and the only line
\* printed is the no-birthdays line; or it returned a non-empty list and the
\* lines printed are the heading and the messages in order.  A run whose
\* pipeline has ended can always take the step to one of them.
C8_MainOutcomes ==
    /\ (entryPoint = "main" /\ pc = "ended") => ENABLED Next
    /\ (entryPoint = "main" /\ pc = "exited") =>
        \/ /\ outcome.kind = "raised"
           /\ exitStatus # 0
           /\ stdout = <<>>
           /\ \E i \in 1..Len(stderr) : stderr[i].message = outcome.exc.message
        \/ /\ outcome = Returned(<<>>)
           /\ exitStatus = 0
           /\ stdout = <<OutputLine("No birthdays today.", <<>>)>>
           /\ stderr = <<>>
        \/ /\ outcome.kind = "returned" /\ outcome.value # <<>>
           /\ exitStatus = 0
           /\ Len(stdout) = Len(outcome.value) + 1
           /\ stdout[1] = OutputLine("Sent the following birthday messages:", <<>>)
           /\ \A i \in 1..Len(outcome.value) :
                  stdout[i + 1] = OutputLine("- ", outcome.value[i])
           /\ stderr = <<>>

C8_Witness ==
    /\ pc = "exited"
    /\ birthdaysFile = <<Bob, BadDate>>
    /\ outcome = Raised(DateFormatError(BadDate))
    /\ exitStatus = 1
    /\ stderr[Len(stderr)] = ErrorLine("ValueError", DateFormatError(BadDate).message)
    /\ stdout = <<>>

NonSpaceIdx(s) == {i \in 1..Len(s) : s[i] \notin {" ", "\t"}}

LastOf(S) == CHOOSE i \in S : \A j \in S : j <= i

\* s without the spaces around it
Trimmed(s) ==
    IF NonSpaceIdx(s) = {} THEN <<>>
    ELSE SubSeq(s, FirstOf(NonSpaceIdx(s)), LastOf(NonSpaceIdx(s)))

\* C9: the mention is the trimmed nickname when that starts with "@", and "@"
\* followed by the trimmed nickname otherwise; it starts with "@"; and the
\* mention of a nickname that is a mention is that mention.
C9_Mention ==
    /\ (entryPoint = "mention" /\ pc # "mention") =>
           /\ mentionOut = (IF Trimmed(nickname) # <<>> /\ Trimmed(nickname)[1] = "@"
                            THEN Trimmed(nickname)
                            ELSE <<"@">> \o Trimmed(nickname))
           /\ mentionOut[1] = "@"
    /\ (entryPoint = "mention" /\ pc = "ended") => mentionAgain = mentionOut

C9_Witness ==
    /\ entryPoint = "mention" /\ pc = "ended"
    /\ nickname = <<"\t", "@", "b", " ">>
    /\ mentionOut = <<"@", "b">>
    /\ mentionAgain = <<"@", "b">>

\* C10: a request is issued only when a message has been selected and
\* rendered for every celebrant; a run that ends with the error of the
\* selection (no template left after the blank ones are dropped) or of the
\* rendering (a field other than name and mention) has issued no request.
C10_NothingSentBeforeAllRendered ==
    entryPoint = "main" =>
        /\ requests # <<>> =>
               /\ pc \in {"send", "ended", "exited"}
               /\ Len(selMessages) = Len(celebrants)
               /\ messages = selMessages
        /\ (outcome.kind = "raised" /\ outcome.exc.type = "KeyError") => requests = <<>>
        /\ outcome = Raised(NoTemplatesError) => requests = <<>>

C10_Witness ==
    /\ pc = "exited"
    /\ Len(celebrants) = 2
    /\ Len(selMessages) = 1 /\ draws = 2
    /\ outcome = Raised(RenderKeyError("{other}"))
    /\ requests = <<>>

====
